---- MODULE Spec2Model ----
(***************************************************************************)
(* A model of @sudobility/entity_client.                                   *)
(*                                                                         *)
(*   SpecClient  EntityClient (network/EntityClient.ts): one accessor call *)
(*               at a time, through the three asynchronous steps of        *)
(*               request(): getAuthToken, fetch, response.json().          *)
(*   Spec        CurrentEntityProvider (hooks/useCurrentEntity.tsx) over   *)
(*               the useEntities query: renders, the four effects of a     *)
(*               commit, the callbacks of the context value, the query's   *)
(*               fetches, the end of a mutation, and a reload of the page. *)
(*   SpecCache   the query and mutation hooks (hooks/useEntities.ts,       *)
(*               hooks/useEntityMembers.ts) over one query cache: hooks    *)
(*               mount, refetch, their fetches end, mutations run and      *)
(*               invalidate.                                               *)
(*   SpecBindings  the same hooks with one hook mounted, keeping what the  *)
(*               last queryFn and the last mutation did.                   *)
(*                                                                         *)
(* Strings are modelled as sequences of string pieces: a template literal  *)
(* is the sequence of its literal parts and its substituted values, and    *)
(* string concatenation is \o.                                             *)
(***************************************************************************)
EXTENDS Naturals, Sequences, FiniteSets, TLC

VARIABLES
    \* ---- EntityClient: the accessor call in progress
    cPc,          \* "idle" | "auth" | "fetch" | "json" | "returned" | "raised"
    cCall,        \* the accessor invoked and its arguments
    cRequest,     \* [path, options]: what the accessor handed to request()
    cToken,       \* what getAuthToken() resolved to for this call
    cFetches,     \* the fetch(url, init) invocations made for this call
    cResponse,    \* the response fetch resolved with
    cResult,      \* the envelope the call returned
    cThrown,      \* the message of the error the call raised
    \* ---- CurrentEntityProvider
    mounted,      \* the first commit has happened
    user,         \* the user prop of the last render (uid, or Null)
    defaultEntitySlug, \* the defaultEntitySlug prop (Null: not supplied)
    selectedSlug, \* useState: selectedSlug
    isInitialized,\* useState: isInitialized
    previousUserUid, \* useRef: previousUserUid.current
    storage,      \* localStorage.getItem('currentEntitySlug') (Null: no entry)
    query,        \* the ['entities','list'] query: [status, fetching, data]
    rendered,     \* what the last render saw and exposed
    notified,     \* the value of the last onEntityChange(...) call
    sessionLoadDone, \* history: a load attempt of the entity list has
                  \* completed since the user of this session appeared
    refetchCalls, \* history: the refetch() calls the effects of the last
                  \* step made
    chain,        \* history: [origin, commits, changes]: the last event that
                  \* was not a re-render, the re-renders since the
                  \* last event, and the commits since then whose effects
                  \* changed selectedSlug
    lastEvent,    \* history: the last step taken
    \* ---- the query cache and the bindings
    observers,    \* the read hooks that are mounted
    cache,        \* the query of each key: [status, data, error,
                  \* isInvalidated, call]
    mutation,     \* the mutation in progress, or the last one
    serverEntities, \* the slugs of the entities the server holds
    lastFn        \* history: the query function the last step completed

clientVars ==
    <<cPc, cCall, cRequest, cToken, cFetches, cResponse, cResult, cThrown>>
providerVars == <<mounted, user, defaultEntitySlug, selectedSlug, isInitialized,
                  previousUserUid, storage, query, rendered,
                  notified, sessionLoadDone, refetchCalls, chain, lastEvent>>
cacheVars == <<observers, cache, mutation, serverEntities, lastFn>>
vars == <<cPc, cCall, cRequest, cToken, cFetches, cResponse, cResult, cThrown,
          mounted, user, defaultEntitySlug, selectedSlug, isInitialized,
          previousUserUid, storage, query, rendered,
          notified, sessionLoadDone, refetchCalls, chain, lastEvent,
          observers, cache, mutation, serverEntities, lastFn>>

\* null / undefined, and an absent optional field
Null == "<null>"
Absent == "<absent>"

(***************************************************************************)
(* EntityClient                                                            *)
(***************************************************************************)

baseUrl == "https://api.example.com/api/v1"

\* What getAuthToken() can resolve to: a token, null, or the empty string.
AuthTokens == {"mock-auth-token", "other-token"}
TokenResults == AuthTokens \cup {Null, ""}

EntitySlugs == {"abc12345", "neworg12"}
ResourceIds == {"m1", "i1"}
InviteTokens == {"token123"}
Roles == {"manager", "viewer"}

\* Request objects, as the ordered list of their <<key, value>> members.
CreateEntityRequests ==
    { << <<"displayName", "New Org">>, <<"entitySlug", "neworg12">> >> }
UpdateEntityRequests ==
    { << <<"displayName", "Updated">> >> }
InviteMemberRequests ==
    { << <<"email", "new@example.com">>, <<"role", "viewer">> >>,
      << <<"email", "b@example.com">>, <<"role", "manager">> >> }
NoRequest == <<>>

\* Messages of the errors an asynchronous step can reject with.
ErrorMessages == {"Network error", "Unexpected token < in JSON"}

\* Envelopes a server can answer with.
ServerEnvelopes ==
    { [success |-> TRUE, data |-> "d1", error |-> Absent],
      [success |-> TRUE, data |-> Absent, error |-> Absent],
      [success |-> FALSE, data |-> Absent, error |-> "Not found"],
      [success |-> FALSE, data |-> Absent, error |-> "Error"] }
NoEnvelope == [success |-> FALSE, data |-> Absent, error |-> Absent]

\* Responses fetch can resolve with: a body that is the JSON of an envelope,
\* or a body that is not JSON.
Responses ==
    { [received |-> TRUE, isJson |-> TRUE, body |-> e] : e \in ServerEnvelopes }
        \cup { [received |-> TRUE, isJson |-> FALSE, body |-> NoEnvelope] }
NoResponse == [received |-> FALSE, isJson |-> FALSE, body |-> NoEnvelope]

RECURSIVE JSONMembers(_)
JSONMembers(obj) ==
    IF obj = <<>> THEN <<>>
    ELSE LET m == Head(obj)
             one == <<"\"", m[1], "\":\"", m[2], "\"">>
         IN IF Len(obj) = 1 THEN one
            ELSE one \o <<",">> \o JSONMembers(Tail(obj))

\* JSON.stringify of an object of string members
JSONstringify(obj) == <<"{">> \o JSONMembers(obj) \o <<"}">>

NoBody == <<>>
NoHeaders == <<>>
NoOptions == [method |-> Absent, body |-> NoBody, headers |-> NoHeaders]

\* ---- the fourteen accessors: the path and options each hands to request()
listEntities ==
    [path |-> <<"/entities">>, options |-> NoOptions]

createEntity(request) ==
    [path |-> <<"/entities">>,
     options |-> [method |-> "POST", body |-> JSONstringify(request),
                  headers |-> NoHeaders]]

getEntity(entitySlug) ==
    [path |-> <<"/entities/", entitySlug>>, options |-> NoOptions]

updateEntity(entitySlug, request) ==
    [path |-> <<"/entities/", entitySlug>>,
     options |-> [method |-> "PUT", body |-> JSONstringify(request),
                  headers |-> NoHeaders]]

deleteEntity(entitySlug) ==
    [path |-> <<"/entities/", entitySlug>>,
     options |-> [method |-> "DELETE", body |-> NoBody, headers |-> NoHeaders]]

listMembers(entitySlug) ==
    [path |-> <<"/entities/", entitySlug, "/members">>, options |-> NoOptions]

\* Mutant: the role is sent bare, not wrapped in an object.
updateMemberRole_BareRole(entitySlug, memberId, role) ==
    [path |-> <<"/entities/", entitySlug, "/members/", memberId>>,
     options |-> [method |-> "PUT", body |-> <<"\"", role, "\"">>,
                  headers |-> NoHeaders]]

updateMemberRole(entitySlug, memberId, role) ==
    [path |-> <<"/entities/", entitySlug, "/members/", memberId>>,
     options |-> [method |-> "PUT",
                  body |-> JSONstringify(<< <<"role", role>> >>),
                  headers |-> NoHeaders]]

removeMember(entitySlug, memberId) ==
    [path |-> <<"/entities/", entitySlug, "/members/", memberId>>,
     options |-> [method |-> "DELETE", body |-> NoBody, headers |-> NoHeaders]]

listEntityInvitations(entitySlug) ==
    [path |-> <<"/entities/", entitySlug, "/invitations">>,
     options |-> NoOptions]

createInvitation(entitySlug, request) ==
    [path |-> <<"/entities/", entitySlug, "/invitations">>,
     options |-> [method |-> "POST", body |-> JSONstringify(request),
                  headers |-> NoHeaders]]

cancelInvitation(entitySlug, invitationId) ==
    [path |-> <<"/entities/", entitySlug, "/invitations/", invitationId>>,
     options |-> [method |-> "DELETE", body |-> NoBody, headers |-> NoHeaders]]

listMyInvitations ==
    [path |-> <<"/invitations">>, options |-> NoOptions]

acceptInvitation(token) ==
    [path |-> <<"/invitations/", token, "/accept">>,
     options |-> [method |-> "POST", body |-> NoBody, headers |-> NoHeaders]]

declineInvitation(token) ==
    [path |-> <<"/invitations/", token, "/decline">>,
     options |-> [method |-> "POST", body |-> NoBody, headers |-> NoHeaders]]

Accessors ==
    {"listEntities", "createEntity", "getEntity", "updateEntity",
     "deleteEntity", "listMembers", "updateMemberRole", "removeMember",
     "listEntityInvitations", "createInvitation", "cancelInvitation",
     "listMyInvitations", "acceptInvitation", "declineInvitation"}

\* The arguments an accessor takes; the fields it does not take are Absent.
NoArgs ==
    [entitySlug |-> Absent, id |-> Absent, token |-> Absent,
     request |-> NoRequest, role |-> Absent]

ArgsOf(op) ==
    CASE op \in {"listEntities", "listMyInvitations"} -> {NoArgs}
      [] op = "createEntity" ->
            {[NoArgs EXCEPT !.request = r] : r \in CreateEntityRequests}
      [] op \in {"getEntity", "deleteEntity", "listMembers",
                 "listEntityInvitations"} ->
            {[NoArgs EXCEPT !.entitySlug = s] : s \in EntitySlugs}
      [] op = "updateEntity" ->
            {[NoArgs EXCEPT !.entitySlug = s, !.request = r] :
                s \in EntitySlugs, r \in UpdateEntityRequests}
      [] op = "updateMemberRole" ->
            {[NoArgs EXCEPT !.entitySlug = s, !.id = i, !.role = ro] :
                s \in EntitySlugs, i \in ResourceIds, ro \in Roles}
      [] op \in {"removeMember", "cancelInvitation"} ->
            {[NoArgs EXCEPT !.entitySlug = s, !.id = i] :
                s \in EntitySlugs, i \in ResourceIds}
      [] op = "createInvitation" ->
            {[NoArgs EXCEPT !.entitySlug = s, !.request = r] :
                s \in EntitySlugs, r \in InviteMemberRequests}
      [] op \in {"acceptInvitation", "declineInvitation"} ->
            {[NoArgs EXCEPT !.token = t] : t \in InviteTokens}

\* Dispatch of a call to the accessor method of that name.
AccessorRequest(op, a) ==
    CASE op = "listEntities" -> listEntities
      [] op = "createEntity" -> createEntity(a.request)
      [] op = "getEntity" -> getEntity(a.entitySlug)
      [] op = "updateEntity" -> updateEntity(a.entitySlug, a.request)
      [] op = "deleteEntity" -> deleteEntity(a.entitySlug)
      [] op = "listMembers" -> listMembers(a.entitySlug)
      [] op = "updateMemberRole" -> updateMemberRole(a.entitySlug, a.id, a.role)
      [] op = "removeMember" -> removeMember(a.entitySlug, a.id)
      [] op = "listEntityInvitations" -> listEntityInvitations(a.entitySlug)
      [] op = "createInvitation" -> createInvitation(a.entitySlug, a.request)
      [] op = "cancelInvitation" -> cancelInvitation(a.entitySlug, a.id)
      [] op = "listMyInvitations" -> listMyInvitations
      [] op = "acceptInvitation" -> acceptInvitation(a.token)
      [] op = "declineInvitation" -> declineInvitation(a.token)

NoCall == [op |-> Absent, args |-> NoArgs]
NoRequestMade == [path |-> <<>>, options |-> NoOptions]

\* Mutant: only null counts as a missing token.
TokenMissing_NullOnly(token) == token = Null

\* `if (!token)`: null and the empty string are both falsy
TokenMissing(token) == token = Null \/ token = ""

NotAuthenticated ==
    [success |-> FALSE, data |-> Absent, error |-> "Not authenticated"]

\* A header list as <<name, value>> pairs; a later pair of the same name wins
\* (object spread).
RECURSIVE HeaderValue(_, _)
HeaderValue(headers, name) ==
    IF headers = <<>> THEN <<>>
    ELSE LET last == headers[Len(headers)]
         IN IF last[1] = name THEN last[2]
            ELSE HeaderValue(SubSeq(headers, 1, Len(headers) - 1), name)

\* request(): the headers object, lines 55-59
RequestHeaders(token, options) ==
    << <<"Content-Type", <<"application/json">> >>,
       <<"Authorization", <<"Bearer ", token>> >> >> \o options.headers

\* request(): the fetch(url, {...options, headers}) invocation, lines 54-65
FetchInvocation(path, options, token) ==
    [url |-> <<baseUrl>> \o path,
     init |-> [method |-> options.method, body |-> options.body,
               headers |-> RequestHeaders(token, options)]]

\* `const data = await response.json(); return data as ApiResponse<T>`
ResponseJson(response) == response.body

\* The verb fetch uses for an init without a method
FetchVerb(init) == IF init.method = Absent THEN "GET" ELSE init.method

\* `catch (error) { return { success: false, error: error.message } }`
CaughtEnvelope(message) ==
    [success |-> FALSE, data |-> Absent, error |-> message]

ClientIdle ==
    /\ cPc = "idle"
    /\ cCall = NoCall
    /\ cRequest = NoRequestMade
    /\ cToken = Absent
    /\ cFetches = <<>>
    /\ cResponse = NoResponse
    /\ cResult = NoEnvelope
    /\ cThrown = Absent

\* A caller invokes an accessor: the accessor calls request(path, options),
\* which awaits getAuthToken().
Invoke ==
    /\ cPc = "idle"
    /\ \E op \in Accessors : \E a \in ArgsOf(op) :
          /\ cCall' = [op |-> op, args |-> a]
          /\ cRequest' = AccessorRequest(op, a)
    /\ cPc' = "auth"
    /\ UNCHANGED <<cToken, cFetches, cResponse, cResult, cThrown>>
    /\ UNCHANGED <<providerVars, cacheVars>>

\* getAuthToken() resolves: without a token the call returns at once,
\* otherwise fetch is invoked.
AuthTokenResolves ==
    /\ cPc = "auth"
    /\ \E token \in TokenResults :
          /\ cToken' = token
          /\ IF TokenMissing(token)
             THEN /\ cResult' = NotAuthenticated
                  /\ cPc' = "returned"
                  /\ UNCHANGED cFetches
             ELSE /\ cFetches' = Append(cFetches,
                        FetchInvocation(cRequest.path, cRequest.options, token))
                  /\ cPc' = "fetch"
                  /\ UNCHANGED cResult
    /\ UNCHANGED <<cCall, cRequest, cResponse, cThrown>>
    /\ UNCHANGED <<providerVars, cacheVars>>

\* getAuthToken() rejects: the await of line 49 is outside the try block, so
\* the rejection leaves request() and the accessor.
AuthTokenRejects ==
    /\ cPc = "auth"
    /\ \E message \in ErrorMessages : cThrown' = message
    /\ cPc' = "raised"
    /\ UNCHANGED <<cCall, cRequest, cToken, cFetches, cResponse, cResult>>
    /\ UNCHANGED <<providerVars, cacheVars>>

\* fetch resolves with a response; response.json() is awaited.
FetchResolves ==
    /\ cPc = "fetch"
    /\ \E response \in Responses : cResponse' = response
    /\ cPc' = "json"
    /\ UNCHANGED <<cCall, cRequest, cToken, cFetches, cResult, cThrown>>
    /\ UNCHANGED <<providerVars, cacheVars>>

\* fetch rejects (a network error): caught.
FetchRejects ==
    /\ cPc = "fetch"
    /\ \E message \in ErrorMessages : cResult' = CaughtEnvelope(message)
    /\ cPc' = "returned"
    /\ UNCHANGED <<cCall, cRequest, cToken, cFetches, cResponse, cThrown>>
    /\ UNCHANGED <<providerVars, cacheVars>>

\* response.json() resolves: the parsed body is returned as it is.
JsonResolves ==
    /\ cPc = "json"
    /\ cResponse.isJson
    /\ cResult' = ResponseJson(cResponse)
    /\ cPc' = "returned"
    /\ UNCHANGED <<cCall, cRequest, cToken, cFetches, cResponse, cThrown>>
    /\ UNCHANGED <<providerVars, cacheVars>>

\* response.json() rejects (a body that is not JSON): caught.
JsonRejects ==
    /\ cPc = "json"
    /\ ~cResponse.isJson
    /\ \E message \in ErrorMessages : cResult' = CaughtEnvelope(message)
    /\ cPc' = "returned"
    /\ UNCHANGED <<cCall, cRequest, cToken, cFetches, cResponse, cThrown>>
    /\ UNCHANGED <<providerVars, cacheVars>>

\* The caller has its answer; the client is stateless and takes the next call.
CallEnds ==
    /\ cPc \in {"returned", "raised"}
    /\ cPc' = "idle"
    /\ cCall' = NoCall
    /\ cRequest' = NoRequestMade
    /\ cToken' = Absent
    /\ cFetches' = <<>>
    /\ cResponse' = NoResponse
    /\ cResult' = NoEnvelope
    /\ cThrown' = Absent
    /\ UNCHANGED <<providerVars, cacheVars>>

NextClient ==
    \/ Invoke
    \/ AuthTokenResolves
    \/ AuthTokenRejects
    \/ FetchResolves
    \/ FetchRejects
    \/ JsonResolves
    \/ JsonRejects
    \/ CallEnds

(***************************************************************************)
(* CurrentEntityProvider                                                   *)
(*                                                                         *)
(* A commit is a render of the component followed by the effects whose     *)
(* dependencies changed since the previous render, in source order, each   *)
(* reading the values the render closed over.  React re-renders for the    *)
(* state an effect has set before it delivers the next event, so events    *)
(* (callbacks of the context value, a change of the user prop, the         *)
(* completion of a fetch, a reload) arrive when no render is pending.      *)
(***************************************************************************)

\* The length of the longest entity list the server answers with.
MaxEntities == 2

Users == {"u1", "u2"}

PERSONAL == "personal"
ORGANIZATION == "organization"

PersonalEntity ==
    [id |-> "1", entitySlug |-> "a-personal", entityType |-> PERSONAL]
OrgB == [id |-> "2", entitySlug |-> "b-org", entityType |-> ORGANIZATION]
OrgC == [id |-> "3", entitySlug |-> "c-org", entityType |-> ORGANIZATION]
OtherPersonal ==
    [id |-> "4", entitySlug |-> "d-personal", entityType |-> PERSONAL]
AllEntities == {PersonalEntity, OrgB, OrgC, OtherPersonal}

\* `undefined` (find without a match) and `null` (no current entity)
NullEntity == [id |-> Null, entitySlug |-> Null, entityType |-> Null]

\* Entity lists: slugs are unique within a list.
EntityLists ==
    { l \in UNION { [1..n -> AllEntities] : n \in 0..MaxEntities } :
        \A i, j \in DOMAIN l : i # j => l[i] # l[j] }

\* Slugs a caller may pass to selectEntity, stored slugs and default slugs.
StaleSlug == "stale-slug"
SelectableSlugs == { e.entitySlug : e \in AllEntities } \cup {StaleSlug}
SelectableIds == { e.id : e \in AllEntities } \cup {"no-such-id"}
StoredSlugs == {Null, "", "b-org", StaleSlug}
DefaultSlugs == {Null, "", "c-org"}

\* typeof window !== 'undefined': the model is of the browser build
HasWindow == TRUE

\* JavaScript truthiness of a string | null
Truthy(s) == s # Null /\ s # ""

\* a || b || null
OrElse(a, b) == IF Truthy(a) THEN a ELSE IF Truthy(b) THEN b ELSE Null

\* Array.prototype.find: the first element satisfying the test
RECURSIVE FindBySlug(_, _)
FindBySlug(entities, slug) ==
    IF entities = <<>> THEN NullEntity
    ELSE IF Head(entities).entitySlug = slug THEN Head(entities)
    ELSE FindBySlug(Tail(entities), slug)

RECURSIVE FindById(_, _)
FindById(entities, id) ==
    IF entities = <<>> THEN NullEntity
    ELSE IF Head(entities).id = id THEN Head(entities)
    ELSE FindById(Tail(entities), id)

RECURSIVE findPersonalEntity(_)
findPersonalEntity(entities) ==
    IF entities = <<>> THEN NullEntity
    ELSE IF Head(entities).entityType = PERSONAL THEN Head(entities)
    ELSE findPersonalEntity(Tail(entities))

\* Mutant: the default slug is preferred to the stored one.
InitialSelectedSlug_DefaultFirst(stored, default) == OrElse(default, stored)

\* The useState initializer of selectedSlug
InitialSelectedSlug(stored, default) ==
    IF HasWindow THEN OrElse(stored, default) ELSE OrElse(default, Null)

\* ---- the useEntities query (TanStack Query v5)
NoData == [defined |-> FALSE, value |-> <<>>]
FreshQuery == [status |-> "pending", fetching |-> FALSE, data |-> NoData]

\* A fetch starts: a query without data goes back to 'pending'.
StartFetch(q) ==
    IF q.fetching THEN q
    ELSE [q EXCEPT !.fetching = TRUE,
                   !.status = IF q.data.defined THEN @ ELSE "pending"]

\* refetch() of the query result
Refetch(q) == StartFetch(q)

\* `data: entities = []`
QueryEntities(q) == IF q.data.defined THEN q.data.value ELSE <<>>

\* isLoading of the query result: fetching for the first time
QueryIsLoading(q) == q.fetching /\ q.status = "pending"

\* ---- the render
\* Mutant: no personal-entity step (selected slug, else the first entity).
ResolveCurrentEntity_NoPersonal(isAuthenticated, entities, slug) ==
    IF ~isAuthenticated \/ Len(entities) = 0 THEN NullEntity
    ELSE LET found == IF Truthy(slug) THEN FindBySlug(entities, slug)
                      ELSE NullEntity
         IN IF found # NullEntity THEN found ELSE entities[1]

\* The currentEntity of a render, lines 190-207
ResolveCurrentEntity(isAuthenticated, entities, slug) ==
    IF ~isAuthenticated \/ Len(entities) = 0 THEN NullEntity
    ELSE LET found == IF Truthy(slug) THEN FindBySlug(entities, slug)
                      ELSE NullEntity
             personal == findPersonalEntity(entities)
         IN IF found # NullEntity THEN found
            ELSE IF personal # NullEntity THEN personal
            ELSE entities[1]

\* What a render with user prop u closes over.
Render(u, st) ==
    [user |-> u,
     selectedSlug |-> st.selectedSlug,
     isInitialized |-> st.isInitialized,
     entities |-> QueryEntities(st.query),
     isEntitiesLoading |-> QueryIsLoading(st.query),
     currentEntity |->
        ResolveCurrentEntity(u # Null, QueryEntities(st.query), st.selectedSlug)]

NotRendered ==
    [user |-> Null, selectedSlug |-> Null, isInitialized |-> FALSE,
     entities |-> <<>>, isEntitiesLoading |-> FALSE,
     currentEntity |-> NullEntity]

\* Mutant: currentEntitySlug is the selected slug, not the resolved entity's.
ContextValue_SelectedSlug(r) ==
    [currentEntity |-> r.currentEntity,
     currentEntitySlug |-> r.selectedSlug,
     currentEntityId |-> r.currentEntity.id,
     entities |-> IF r.user # Null THEN r.entities ELSE <<>>,
     isLoading |-> r.user # Null /\ r.isEntitiesLoading,
     isInitialized |-> r.isInitialized]

\* The context value of a render, lines 271-286
ContextValue(r) ==
    [currentEntity |-> r.currentEntity,
     currentEntitySlug |-> r.currentEntity.entitySlug,
     currentEntityId |-> r.currentEntity.id,
     entities |-> IF r.user # Null THEN r.entities ELSE <<>>,
     isLoading |-> r.user # Null /\ r.isEntitiesLoading,
     isInitialized |-> r.isInitialized]

\* ---- the effects, on the state st they write
ProviderState ==
    [selectedSlug |-> selectedSlug, isInitialized |-> isInitialized,
     storage |-> storage, previousUserUid |-> previousUserUid,
     query |-> query, notified |-> notified, refetchCalls |-> 0]

\* Mutant: logout clears the component state but leaves the stored entry.
UserChangeEffect_KeepsStorage(r, st) ==
    LET currentUid == r.user
        st1 == IF currentUid # Null /\ currentUid # st.previousUserUid
               THEN [st EXCEPT !.query = Refetch(@), !.refetchCalls = @ + 1]
               ELSE st
        st2 == IF currentUid = Null /\ st.previousUserUid # Null
               THEN [st1 EXCEPT !.selectedSlug = Null,
                                !.isInitialized = FALSE]
               ELSE st1
    IN [st2 EXCEPT !.previousUserUid = currentUid]

\* Mutant: the list is re-fetched at every change of the uid, logout included.
UserChangeEffect_RefetchOnAnyChange(r, st) ==
    LET currentUid == r.user
        st1 == IF currentUid # st.previousUserUid
               THEN [st EXCEPT !.query = Refetch(@), !.refetchCalls = @ + 1]
               ELSE st
        st2 == IF currentUid = Null /\ st.previousUserUid # Null
               THEN [st1 EXCEPT !.selectedSlug = Null,
                                !.isInitialized = FALSE,
                                !.storage = IF HasWindow THEN Null ELSE @]
               ELSE st1
    IN [st2 EXCEPT !.previousUserUid = currentUid]

\* Mutant: the logout branch runs at every change from a uid, to another
\* uid included.
UserChangeEffect_ClearsOnSwitch(r, st) ==
    LET currentUid == r.user
        st1 == IF currentUid # Null /\ currentUid # st.previousUserUid
               THEN [st EXCEPT !.query = Refetch(@), !.refetchCalls = @ + 1]
               ELSE st
        st2 == IF currentUid # st.previousUserUid /\ st.previousUserUid # Null
               THEN [st1 EXCEPT !.selectedSlug = Null,
                                !.isInitialized = FALSE,
                                !.storage = IF HasWindow THEN Null ELSE @]
               ELSE st1
    IN [st2 EXCEPT !.previousUserUid = currentUid]

\* Handle user changes (login/logout), lines 163-183
UserChangeEffect(r, st) ==
    LET currentUid == r.user
        st1 == IF currentUid # Null /\ currentUid # st.previousUserUid
               THEN [st EXCEPT !.query = Refetch(@), !.refetchCalls = @ + 1]
               ELSE st
        st2 == IF currentUid = Null /\ st.previousUserUid # Null
               THEN [st1 EXCEPT !.selectedSlug = Null,
                                !.isInitialized = FALSE,
                                !.storage = IF HasWindow THEN Null ELSE @]
               ELSE st1
    IN [st2 EXCEPT !.previousUserUid = currentUid]

\* Mutant: the effect marks the provider initialized without a user too.
PersistEffect_NoAuthGuard(r, st) ==
    LET st1 == IF r.currentEntity # NullEntity /\ HasWindow
               THEN [st EXCEPT !.storage = r.currentEntity.entitySlug]
               ELSE st
    IN IF ~r.isEntitiesLoading
       THEN [st1 EXCEPT !.isInitialized = TRUE]
       ELSE st1

\* Persist selection and mark as initialized, lines 210-221
PersistEffect(r, st) ==
    IF r.user = Null THEN st
    ELSE LET st1 == IF r.currentEntity # NullEntity /\ HasWindow
                    THEN [st EXCEPT !.storage = r.currentEntity.entitySlug]
                    ELSE st
         IN IF ~r.isEntitiesLoading /\ r.user # Null
            THEN [st1 EXCEPT !.isInitialized = TRUE]
            ELSE st1

\* Mutant: auto-selects only when nothing is selected, and the first entity.
AutoSelectEffect_FirstWhenNone(r, st) ==
    IF ~Truthy(r.selectedSlug) /\ Len(r.entities) > 0
    THEN [st EXCEPT !.selectedSlug = r.entities[1].entitySlug]
    ELSE st

\* Auto-select personal entity when entities are first loaded, lines 224-238
AutoSelectEffect(r, st) ==
    IF r.user = Null \/ r.isEntitiesLoading \/ Len(r.entities) = 0 THEN st
    ELSE IF ~Truthy(r.selectedSlug)
            \/ FindBySlug(r.entities, r.selectedSlug) = NullEntity
    THEN LET personal == findPersonalEntity(r.entities)
         IN IF personal # NullEntity
            THEN [st EXCEPT !.selectedSlug = personal.entitySlug]
            ELSE IF Len(r.entities) > 0
            THEN [st EXCEPT !.selectedSlug = r.entities[1].entitySlug]
            ELSE st
    ELSE st

\* The host supplies the onEntityChange prop (the effect calls it with `?.`).
onEntityChange == TRUE

\* onEntityChange has not been called
NeverNotified == [id |-> Absent, entitySlug |-> Absent, entityType |-> Absent]

\* Mutant: the callback is told of entities only, never of null.
NotifyEffect_EntitiesOnly(r, st) ==
    IF onEntityChange /\ r.currentEntity # NullEntity
    THEN [st EXCEPT !.notified = r.currentEntity]
    ELSE st

\* Notify when entity changes, lines 240-243: onEntityChange?.(currentEntity)
NotifyEffect(r, st) ==
    IF onEntityChange THEN [st EXCEPT !.notified = r.currentEntity] ELSE st

\* The dependency lists of the effects; an effect runs at the first commit
\* and whenever its list differs from the previous render's.
UserChangeDeps(r) == <<r.user>>
PersistDeps(r) == <<r.currentEntity, r.isEntitiesLoading, r.user # Null>>
\* Mutant: the auto-select effect does not depend on selectedSlug.
AutoSelectDeps_NoSelectedSlug(r) ==
    <<r.entities, r.isEntitiesLoading, r.user # Null>>

AutoSelectDeps(r) ==
    <<r.entities, r.isEntitiesLoading, r.selectedSlug, r.user # Null>>
\* the host passes the same onEntityChange function at every render
NotifyDeps(r) == <<r.currentEntity>>

\* The state after the effects of the commit of render r.
RunEffects(first, prev, r, st) ==
    LET st1 == IF first \/ UserChangeDeps(r) # UserChangeDeps(prev)
               THEN UserChangeEffect(r, st) ELSE st
        st2 == IF first \/ PersistDeps(r) # PersistDeps(prev)
               THEN PersistEffect(r, st1) ELSE st1
        st3 == IF first \/ AutoSelectDeps(r) # AutoSelectDeps(prev)
               THEN AutoSelectEffect(r, st2) ELSE st2
        st4 == IF first \/ NotifyDeps(r) # NotifyDeps(prev)
               THEN NotifyEffect(r, st3) ELSE st3
    IN st4

\* A render is pending: the state differs from what the last render saw.
RenderPending == mounted /\ Render(user, ProviderState) # rendered
Settled == mounted /\ ~RenderPending

\* The chain of commits an event starts: none yet, and one commit more.
MaxChain == 4
NoChain == [origin |-> "init", commits |-> 0, changes |-> 0]
NewChain(event) == [NoChain EXCEPT !.origin = event]
ChainStep(c, rerender, changed) ==
    [origin |-> c.origin,
     commits |-> IF rerender /\ c.commits < MaxChain THEN c.commits + 1
                 ELSE c.commits,
     changes |-> IF changed /\ c.changes < MaxChain THEN c.changes + 1
                 ELSE c.changes]

\* Render with user prop u and run the effects.
Commit(u, st) ==
    LET r == Render(u, st)
        after == RunEffects(~mounted, rendered, r, st)
    IN /\ rendered' = r
       /\ user' = u
       /\ mounted' = TRUE
       /\ selectedSlug' = after.selectedSlug
       /\ isInitialized' = after.isInitialized
       /\ storage' = after.storage
       /\ previousUserUid' = after.previousUserUid
       /\ query' = after.query
       /\ notified' = after.notified
       /\ refetchCalls' = after.refetchCalls
       /\ UNCHANGED defaultEntitySlug
       /\ UNCHANGED <<clientVars, cacheVars>>

ProviderInit ==
    /\ mounted = FALSE
    /\ user \in Users \cup {Null}
    /\ defaultEntitySlug \in DefaultSlugs
    /\ storage \in StoredSlugs
    /\ selectedSlug = InitialSelectedSlug(storage, defaultEntitySlug)
    /\ isInitialized = FALSE
    /\ previousUserUid = Null
    /\ query = FreshQuery
    /\ rendered = NotRendered
    /\ notified = NeverNotified
    /\ sessionLoadDone = FALSE
    /\ refetchCalls = 0
    /\ chain = NoChain
    /\ lastEvent = "init"

\* The first commit; the query observer mounts with it and, the query
\* having no data, starts the fetch whatever the user prop is.
Mount ==
    /\ ~mounted
    /\ Commit(user, [ProviderState EXCEPT !.query = StartFetch(@)])
    /\ sessionLoadDone' = FALSE
    /\ chain' = ChainStep(NewChain("mount"), FALSE,
                        selectedSlug' # selectedSlug)
    /\ lastEvent' = "mount"

\* The re-render for state set by an effect, a callback or the query.
Rerender ==
    /\ RenderPending
    /\ Commit(user, ProviderState)
    /\ UNCHANGED sessionLoadDone
    /\ chain' = ChainStep(chain, TRUE, selectedSlug' # selectedSlug)
    /\ lastEvent' = "rerender"

\* The host renders the provider with a user where there was none.
Login ==
    /\ Settled
    /\ user = Null
    /\ \E u \in Users : Commit(u, ProviderState)
    /\ sessionLoadDone' = FALSE
    /\ chain' = ChainStep(NewChain("login"), FALSE,
                        selectedSlug' # selectedSlug)
    /\ lastEvent' = "login"

\* The host renders the provider without a user where there was one.
Logout ==
    /\ Settled
    /\ user # Null
    /\ Commit(Null, ProviderState)
    /\ sessionLoadDone' = FALSE
    /\ chain' = ChainStep(NewChain("logout"), FALSE,
                        selectedSlug' # selectedSlug)
    /\ lastEvent' = "logout"

\* The host renders the provider with another user, with no logout between.
SwitchUser ==
    /\ Settled
    /\ user # Null
    /\ \E u \in Users \ {user} : Commit(u, ProviderState)
    /\ UNCHANGED sessionLoadDone
    /\ chain' = ChainStep(NewChain("switch"), FALSE,
                        selectedSlug' # selectedSlug)
    /\ lastEvent' = "switch"

\* selectEntity(entitySlug), lines 245-247
selectEntity ==
    /\ Settled
    /\ \E entitySlug \in SelectableSlugs : selectedSlug' = entitySlug
    /\ lastEvent' = "selectEntity"
    /\ refetchCalls' = 0
    /\ chain' = NewChain(lastEvent')
    /\ UNCHANGED notified
    /\ UNCHANGED <<mounted, user, defaultEntitySlug, isInitialized,
                   previousUserUid, storage, query, rendered, sessionLoadDone>>
    /\ UNCHANGED <<clientVars, cacheVars>>

\* selectEntityById(entityId), lines 249-257
selectEntityById ==
    /\ Settled
    /\ \E entityId \in SelectableIds :
          LET entity == FindById(rendered.entities, entityId)
          IN selectedSlug' = IF entity # NullEntity THEN entity.entitySlug
                             ELSE selectedSlug
    /\ lastEvent' = "selectEntityById"
    /\ refetchCalls' = 0
    /\ chain' = NewChain(lastEvent')
    /\ UNCHANGED notified
    /\ UNCHANGED <<mounted, user, defaultEntitySlug, isInitialized,
                   previousUserUid, storage, query, rendered, sessionLoadDone>>
    /\ UNCHANGED <<clientVars, cacheVars>>

\* refresh(), lines 259-261
refresh ==
    /\ Settled
    /\ query' = Refetch(query)
    /\ lastEvent' = "refresh"
    /\ refetchCalls' = 0
    /\ chain' = NewChain(lastEvent')
    /\ UNCHANGED notified
    /\ UNCHANGED <<mounted, user, defaultEntitySlug, selectedSlug,
                   isInitialized, previousUserUid, storage, rendered,
                   sessionLoadDone>>
    /\ UNCHANGED <<clientVars, cacheVars>>

\* clear(), lines 263-269
clear ==
    /\ Settled
    /\ selectedSlug' = Null
    /\ isInitialized' = FALSE
    /\ storage' = IF HasWindow THEN Null ELSE storage
    /\ lastEvent' = "clear"
    /\ refetchCalls' = 0
    /\ chain' = NewChain(lastEvent')
    /\ UNCHANGED notified
    /\ UNCHANGED <<mounted, user, defaultEntitySlug, previousUserUid, query,
                   rendered, sessionLoadDone>>
    /\ UNCHANGED <<clientVars, cacheVars>>

\* The fetch of the entity list ends with success:true and a list.
FetchSucceeds ==
    /\ Settled
    /\ query.fetching
    /\ \E list \in EntityLists :
          query' = [status |-> "success", fetching |-> FALSE,
                    data |-> [defined |-> TRUE, value |-> list]]
    /\ sessionLoadDone' = (sessionLoadDone \/ user # Null)
    /\ lastEvent' = "fetchSucceeds"
    /\ refetchCalls' = 0
    /\ chain' = NewChain(lastEvent')
    /\ UNCHANGED notified
    /\ UNCHANGED <<mounted, user, defaultEntitySlug, selectedSlug,
                   isInitialized, previousUserUid, storage, rendered>>
    /\ UNCHANGED <<clientVars, cacheVars>>

\* The fetch of the entity list ends with a thrown error (success:false);
\* data fetched before is kept.
FetchFails ==
    /\ Settled
    /\ query.fetching
    /\ query' = [query EXCEPT !.status = "error", !.fetching = FALSE]
    /\ sessionLoadDone' = (sessionLoadDone \/ user # Null)
    /\ lastEvent' = "fetchFails"
    /\ refetchCalls' = 0
    /\ chain' = NewChain(lastEvent')
    /\ UNCHANGED notified
    /\ UNCHANGED <<mounted, user, defaultEntitySlug, selectedSlug,
                   isInitialized, previousUserUid, storage, rendered>>
    /\ UNCHANGED <<clientVars, cacheVars>>

\* The page is reloaded: the component state and the query cache are new,
\* localStorage is kept.
Reload ==
    /\ Settled
    /\ mounted' = FALSE
    /\ user' \in Users \cup {Null}
    /\ selectedSlug' = InitialSelectedSlug(storage, defaultEntitySlug)
    /\ isInitialized' = FALSE
    /\ previousUserUid' = Null
    /\ query' = FreshQuery
    /\ rendered' = NotRendered
    /\ sessionLoadDone' = FALSE
    /\ notified' = NeverNotified
    /\ refetchCalls' = 0
    /\ chain' = NewChain("reload")
    /\ lastEvent' = "reload"
    /\ UNCHANGED <<defaultEntitySlug, storage>>
    /\ UNCHANGED <<clientVars, cacheVars>>

(***************************************************************************)
(* The query and mutation bindings (hooks/useEntities.ts,                  *)
(* hooks/useEntityMembers.ts) over the query cache                         *)
(*                                                                         *)
(* The cache engine is the QueryClient of TanStack Query, taken by its     *)
(* documented contract: a mounted, enabled query fetches; refetch() runs   *)
(* the query function whatever `enabled` is; invalidateQueries marks the   *)
(* queries whose key starts with the given key and fetches anew those      *)
(* that a mounted, enabled hook observes, dropping a fetch in flight; a    *)
(* fetch that ends in success clears the mark.  A fetch in flight being    *)
(* dropped at an invalidation, its answer is taken from the state the      *)
(* server has when it arrives.  The histories `mutation` and `lastFn` tell *)
(* of the last step only.                                                  *)
(***************************************************************************)

\* The number of query hooks mounted at a time.
MaxObservers == 2

\* A string that `||` and `!` do not take for false.
HasText(s) == s \notin {Absent, Null, ""}

\* ---- entityKeys, memberKeys, invitationKeys
entityKeys_all == <<"entities">>
entityKeys_lists == entityKeys_all \o <<"list">>
entityKeys_list == entityKeys_lists
entityKeys_details == entityKeys_all \o <<"detail">>
entityKeys_detail(slug) == entityKeys_details \o <<slug>>
memberKeys_all(entitySlug) == entityKeys_detail(entitySlug) \o <<"members">>
memberKeys_list(entitySlug) == memberKeys_all(entitySlug) \o <<"list">>
invitationKeys_all == <<"invitations">>
invitationKeys_myList == invitationKeys_all \o <<"my">>
invitationKeys_entityList(entitySlug) ==
    entityKeys_detail(entitySlug) \o <<"invitations">>

\* Mutant: inactive queries are filed under the key of the entity list.
DisabledKey_EntityList == <<"entities", "list">>

\* The key of a query without a slug
DisabledKey == <<"disabled">>

\* partialMatchKey: the query key starts with the filter's key
IsPrefix(filterKey, queryKey) ==
    /\ Len(filterKey) <= Len(queryKey)
    /\ SubSeq(queryKey, 1, Len(filterKey)) = filterKey

\* ---- the read bindings
QueryHooks ==
    {"useEntities", "useEntity", "useEntityMembers", "useMyInvitations",
     "useEntityInvitations"}
ScopedHooks == {"useEntity", "useEntityMembers", "useEntityInvitations"}

\* The entitySlug argument of the hooks that are mounted: a slug, null or ''.
HookSlugs == {"abc12345", Null, ""}
HookInstances ==
    { [hook |-> h, entitySlug |-> Absent] : h \in QueryHooks \ ScopedHooks }
        \cup { [hook |-> h, entitySlug |-> s] : h \in ScopedHooks,
                                                 s \in HookSlugs }

\* queryKey
QueryKey(h) ==
    CASE h.hook = "useEntities" -> entityKeys_list
      [] h.hook = "useMyInvitations" -> invitationKeys_myList
      [] h.hook = "useEntity" ->
            IF Truthy(h.entitySlug) THEN entityKeys_detail(h.entitySlug)
            ELSE DisabledKey
      [] h.hook = "useEntityMembers" ->
            IF Truthy(h.entitySlug) THEN memberKeys_list(h.entitySlug)
            ELSE DisabledKey
      [] h.hook = "useEntityInvitations" ->
            IF Truthy(h.entitySlug)
            THEN invitationKeys_entityList(h.entitySlug)
            ELSE DisabledKey

\* enabled: !!entitySlug (a hook without the option is enabled)
Enabled(h) == h.hook \in ScopedHooks => Truthy(h.entitySlug)

\* The accessor the query function calls
QueryAccessor(h) ==
    CASE h.hook = "useEntities" -> "listEntities"
      [] h.hook = "useMyInvitations" -> "listMyInvitations"
      [] h.hook = "useEntity" -> "getEntity"
      [] h.hook = "useEntityMembers" -> "listMembers"
      [] h.hook = "useEntityInvitations" -> "listEntityInvitations"

QueryDefaultMessage(h) ==
    CASE h.hook = "useEntities" -> "Failed to fetch entities"
      [] h.hook = "useMyInvitations" -> "Failed to fetch invitations"
      [] h.hook = "useEntity" -> "Failed to fetch entity"
      [] h.hook = "useEntityMembers" -> "Failed to fetch members"
      [] h.hook = "useEntityInvitations" -> "Failed to fetch invitations"

\* Query data and envelope data: undefined, null, or a list of items.
Undefined == [kind |-> "undefined", value |-> {}]
NullData == [kind |-> "null", value |-> {}]
Value(items) == [kind |-> "value", value |-> items]

\* Mutant: the query function calls the accessor whatever the slug is.
QueryFnReturnsEarly_Never(h) == FALSE

\* `if (!entitySlug) return null` / `return []`
QueryFnReturnsEarly(h) == h.hook \in ScopedHooks /\ ~Truthy(h.entitySlug)

\* What the query function returns without calling the accessor
QueryFnEarlyValue(h) == IF h.hook = "useEntity" THEN NullData ELSE Value({})

\* Mutant: the query function returns response.data whatever success is.
QueryFn_IgnoresSuccess(h, response) ==
    [raised |-> FALSE, message |-> Absent, value |-> response.data]

\* The query function once the accessor has returned `response`
QueryFn(h, response) ==
    IF \/ ~response.success
       \/ (h.hook = "useEntityMembers" /\ response.data = Undefined)
    THEN [raised |-> TRUE,
          message |-> IF HasText(response.error) THEN response.error
                      ELSE QueryDefaultMessage(h),
          value |-> Undefined]
    ELSE [raised |-> FALSE, message |-> Absent, value |-> response.data]

\* ---- the mutation bindings
MutationHooks ==
    {"useCreateEntity", "useUpdateEntity", "useDeleteEntity",
     "useUpdateMemberRole", "useRemoveMember", "useCreateInvitation",
     "useCancelInvitation", "useAcceptInvitation", "useDeclineInvitation"}
UnscopedMutations ==
    {"useCreateEntity", "useAcceptInvitation", "useDeclineInvitation"}

\* The slug of the entity that useCreateEntity's request creates
NewEntitySlug == "neworg12"

\* The variables of mutate(...), by the entity slug in them; the member id,
\* invitation id, role, token and request body reach the accessor only.
MutationVariables(m) ==
    IF m \in UnscopedMutations THEN { [entitySlug |-> Absent] }
    ELSE { [entitySlug |-> s] : s \in EntitySlugs }

MutationAccessor(m) ==
    CASE m = "useCreateEntity" -> "createEntity"
      [] m = "useUpdateEntity" -> "updateEntity"
      [] m = "useDeleteEntity" -> "deleteEntity"
      [] m = "useUpdateMemberRole" -> "updateMemberRole"
      [] m = "useRemoveMember" -> "removeMember"
      [] m = "useCreateInvitation" -> "createInvitation"
      [] m = "useCancelInvitation" -> "cancelInvitation"
      [] m = "useAcceptInvitation" -> "acceptInvitation"
      [] m = "useDeclineInvitation" -> "declineInvitation"

MutationDefaultMessage(m) ==
    CASE m = "useCreateEntity" -> "Failed to create entity"
      [] m = "useUpdateEntity" -> "Failed to update entity"
      [] m = "useDeleteEntity" -> "Failed to delete entity"
      [] m = "useUpdateMemberRole" -> "Failed to update member role"
      [] m = "useRemoveMember" -> "Failed to remove member"
      [] m = "useCreateInvitation" -> "Failed to create invitation"
      [] m = "useCancelInvitation" -> "Failed to cancel invitation"
      [] m = "useAcceptInvitation" -> "Failed to accept invitation"
      [] m = "useDeclineInvitation" -> "Failed to decline invitation"

\* Mutant: the mutation function resolves whatever the envelope says.
MutationFn_NeverRaises(m, response) ==
    [raised |-> FALSE, message |-> Absent]

\* mutationFn once the accessor has returned `response`
MutationFn(m, response) ==
    IF \/ ~response.success
       \/ (m = "useUpdateMemberRole" /\ response.data = Undefined)
    THEN [raised |-> TRUE,
          message |-> IF HasText(response.error) THEN response.error
                      ELSE MutationDefaultMessage(m)]
    ELSE [raised |-> FALSE, message |-> Absent]

\* Mutant: useDeclineInvitation invalidates the entity list too, as
\* useAcceptInvitation does.
OnSuccessKeys_DeclineAsAccept(m, variables) ==
    CASE m = "useCreateEntity" -> <<entityKeys_lists>>
      [] m = "useUpdateEntity" ->
            <<entityKeys_detail(variables.entitySlug), entityKeys_lists>>
      [] m = "useDeleteEntity" -> <<entityKeys_lists>>
      [] m \in {"useUpdateMemberRole", "useRemoveMember"} ->
            <<memberKeys_list(variables.entitySlug)>>
      [] m \in {"useCreateInvitation", "useCancelInvitation"} ->
            <<invitationKeys_entityList(variables.entitySlug)>>
      [] m \in {"useAcceptInvitation", "useDeclineInvitation"} ->
            <<invitationKeys_myList, entityKeys_lists>>

\* Mutant: useCreateEntity invalidates nothing.
OnSuccessKeys_CreateSilent(m, variables) ==
    CASE m = "useCreateEntity" -> <<>>
      [] m = "useUpdateEntity" ->
            <<entityKeys_detail(variables.entitySlug), entityKeys_lists>>
      [] m = "useDeleteEntity" -> <<entityKeys_lists>>
      [] m \in {"useUpdateMemberRole", "useRemoveMember"} ->
            <<memberKeys_list(variables.entitySlug)>>
      [] m \in {"useCreateInvitation", "useCancelInvitation"} ->
            <<invitationKeys_entityList(variables.entitySlug)>>
      [] m = "useAcceptInvitation" ->
            <<invitationKeys_myList, entityKeys_lists>>
      [] m = "useDeclineInvitation" -> <<invitationKeys_myList>>

\* onSuccess: the keys of its invalidateQueries calls, in order
OnSuccessKeys(m, variables) ==
    CASE m = "useCreateEntity" -> <<entityKeys_lists>>
      [] m = "useUpdateEntity" ->
            <<entityKeys_detail(variables.entitySlug), entityKeys_lists>>
      [] m = "useDeleteEntity" -> <<entityKeys_lists>>
      [] m \in {"useUpdateMemberRole", "useRemoveMember"} ->
            <<memberKeys_list(variables.entitySlug)>>
      [] m \in {"useCreateInvitation", "useCancelInvitation"} ->
            <<invitationKeys_entityList(variables.entitySlug)>>
      [] m = "useAcceptInvitation" ->
            <<invitationKeys_myList, entityKeys_lists>>
      [] m = "useDeclineInvitation" -> <<invitationKeys_myList>>

\* The envelopes an accessor returns for a payload the server holds: the
\* payload, success without data, a refusal with a message, and one without.
AccessorEnvelopes(payload) ==
    { [success |-> TRUE, data |-> Value(payload), error |-> Absent],
      [success |-> TRUE, data |-> Undefined, error |-> Absent],
      [success |-> FALSE, data |-> Undefined, error |-> "Not found"],
      [success |-> FALSE, data |-> Undefined, error |-> ""] }
NoAccessorEnvelope == [success |-> FALSE, data |-> Undefined, error |-> Absent]

\* ---- the query cache
CacheKeys == { QueryKey(h) : h \in HookInstances }

\* The accessor call of a fetch in flight: whose query function runs.
NoFetch == [hook |-> Absent, entitySlug |-> Absent]
FreshEntry ==
    [status |-> "pending", data |-> Undefined, isInvalidated |-> FALSE,
     call |-> NoFetch]
NoMutation ==
    [hook |-> Absent, variables |-> [entitySlug |-> Absent],
     response |-> NoAccessorEnvelope, raised |-> FALSE, message |-> Absent,
     invalidated |-> <<>>, marked |-> {}]
NoFn == [hook |-> Absent, entitySlug |-> Absent, called |-> FALSE,
         response |-> NoAccessorEnvelope, raised |-> FALSE,
         message |-> Absent, value |-> Undefined]

\* What the server answers the accessor of hook h with.
Payload(h, server) == IF h.hook = "useEntities" THEN server ELSE {"d1"}

\* The server after a mutation it accepted.
ServerAfter(m, variables, server) ==
    CASE m = "useCreateEntity" -> server \cup {NewEntitySlug}
      [] m = "useDeleteEntity" -> server \ {variables.entitySlug}
      [] OTHER -> server

\* The query function of h starts: the accessor is called.
StartQueryFetch(e, h) ==
    [e EXCEPT !.call = [hook |-> h.hook, entitySlug |-> h.entitySlug],
              !.status = IF e.data = Undefined THEN "pending" ELSE @]

ExistingKeys == { QueryKey(h) : h \in observers }
Active(k) == \E h \in observers : Enabled(h) /\ QueryKey(h) = k
ActiveHook(k) == CHOOSE h \in observers : Enabled(h) /\ QueryKey(h) = k

CacheInit ==
    /\ observers = {}
    /\ cache = [k \in CacheKeys |-> FreshEntry]
    /\ mutation = NoMutation
    /\ serverEntities = {"abc12345"}
    /\ lastFn = NoFn

\* A component mounts a read hook, `limit` hooks being mounted at most: an
\* enabled query fetches.
QueryMounts(limit) ==
    \E h \in HookInstances \ observers :
        /\ Cardinality(observers) < limit
        /\ observers' = observers \cup {h}
        /\ cache' = IF Enabled(h)
                    THEN [cache EXCEPT ![QueryKey(h)] = StartQueryFetch(@, h)]
                    ELSE cache
        /\ mutation' = NoMutation
        /\ lastFn' = NoFn
        /\ UNCHANGED serverEntities
        /\ UNCHANGED <<clientVars, providerVars>>

\* refetch() of a hook's result: the query function runs, enabled or not.
\* (traced: the histories record the step.)
QueryRefetches(traced) ==
    \E h \in observers :
        /\ IF QueryFnReturnsEarly(h)
           THEN /\ cache' = [cache EXCEPT ![QueryKey(h)] =
                                [status |-> "success",
                                 data |-> QueryFnEarlyValue(h),
                                 isInvalidated |-> FALSE, call |-> NoFetch]]
                /\ lastFn' = IF traced
                             THEN [NoFn EXCEPT !.hook = h.hook,
                                               !.entitySlug = h.entitySlug,
                                               !.value = QueryFnEarlyValue(h)]
                             ELSE NoFn
           ELSE /\ cache' = [cache EXCEPT ![QueryKey(h)] =
                                StartQueryFetch(@, h)]
                /\ lastFn' = NoFn
        /\ mutation' = NoMutation
        /\ UNCHANGED <<observers, serverEntities>>
        /\ UNCHANGED <<clientVars, providerVars>>

\* What the query function of the fetch in flight for key k can end with.
QueryFnRuns(k, traced) ==
    { LET out == QueryFn(cache[k].call, response)
      IN [hook |-> cache[k].call.hook,
          entitySlug |-> cache[k].call.entitySlug,
          called |-> TRUE,
          response |-> IF traced THEN response ELSE NoAccessorEnvelope,
          raised |-> out.raised,
          message |-> IF traced THEN out.message ELSE Absent,
          value |-> out.value] :
        response \in AccessorEnvelopes(Payload(cache[k].call, serverEntities)) }

\* The accessor of a fetch in flight returns, and the query function ends; a
\* query function that resolves to undefined fails the query.
QueryFetchEnds(traced) ==
    \E k \in CacheKeys :
        /\ cache[k].call # NoFetch
        /\ \E run \in QueryFnRuns(k, traced) :
              /\ cache' = [cache EXCEPT ![k] =
                     IF run.raised \/ run.value = Undefined
                     THEN [@ EXCEPT !.status = "error", !.call = NoFetch]
                     ELSE [status |-> "success", data |-> run.value,
                           isInvalidated |-> FALSE, call |-> NoFetch]]
              /\ lastFn' = IF traced THEN run ELSE NoFn
        /\ mutation' = NoMutation
        /\ UNCHANGED <<observers, serverEntities>>
        /\ UNCHANGED <<clientVars, providerVars>>

\* What mutate(variables) of a mutation hook can end with: the accessor is
\* called and returns, mutationFn ends, and onSuccess runs if it did not raise.
MutationFnRuns(traced) ==
    { LET m == run[1]
          variables == run[2]
          response == run[3]
          out == MutationFn(m, response)
      IN [hook |-> m,
          variables |-> IF traced \/ m = "useDeleteEntity" THEN variables
                        ELSE [entitySlug |-> Absent],
          response |-> IF traced THEN response
                       ELSE [NoAccessorEnvelope EXCEPT
                                !.success = response.success],
          raised |-> out.raised,
          message |-> IF traced THEN out.message ELSE Absent,
          invalidated |-> IF out.raised THEN <<>>
                          ELSE OnSuccessKeys(m, variables)] :
        run \in { r \in MutationHooks \X [entitySlug : EntitySlugs \cup {Absent}]
                          \X AccessorEnvelopes({"d1"}) :
                    r[2] \in MutationVariables(r[1]) } }

\* mutate(variables) of a mutation hook, to its end.  invalidateQueries marks
\* the queries whose key starts with a given key, and those that a mounted,
\* enabled hook observes fetch anew.
MutationRuns(traced) ==
    /\ \E run \in MutationFnRuns(traced) :
          LET keys == run.invalidated
              marked == { k \in ExistingKeys :
                            \E i \in DOMAIN keys : IsPrefix(keys[i], k) }
          IN /\ serverEntities' =
                    IF run.response.success
                    THEN ServerAfter(run.hook, run.variables, serverEntities)
                    ELSE serverEntities
             /\ mutation' = IF traced
                            THEN [hook |-> run.hook,
                                  variables |-> run.variables,
                                  response |-> run.response,
                                  raised |-> run.raised,
                                  message |-> run.message,
                                  invalidated |-> keys, marked |-> marked]
                            ELSE NoMutation
             /\ cache' = [k \in CacheKeys |->
                    IF k \notin marked THEN cache[k]
                    ELSE IF Active(k)
                    THEN StartQueryFetch(
                             [cache[k] EXCEPT !.isInvalidated = TRUE],
                             ActiveHook(k))
                    ELSE [cache[k] EXCEPT !.isInvalidated = TRUE]]
    /\ lastFn' = NoFn
    /\ UNCHANGED observers
    /\ UNCHANGED <<clientVars, providerVars>>

\* ---- the cache with several hooks mounted
UseQuery == QueryMounts(MaxObservers)
RefetchQuery == QueryRefetches(FALSE)
QuerySettles == QueryFetchEnds(FALSE)
Mutate == MutationRuns(FALSE)

NextCache ==
    \/ UseQuery
    \/ RefetchQuery
    \/ QuerySettles
    \/ Mutate

\* ---- one binding at a time, with the history of each step
UseOneQuery == QueryMounts(1)
RefetchTraced == QueryRefetches(TRUE)
QuerySettlesTraced == QueryFetchEnds(TRUE)
MutateTraced == MutationRuns(TRUE)

NextBindings ==
    \/ UseOneQuery
    \/ RefetchTraced
    \/ QuerySettlesTraced
    \/ MutateTraced

(***************************************************************************)
(* CurrentEntityProvider and the mutation bindings                         *)
(***************************************************************************)

\* What a mutation of the application can end with: whether the envelope
\* said success, and whether onSuccess ran and invalidated a key that the
\* key of the entity list starts with.
MutationOutcomes ==
    { [accepted |-> response.success,
       listInvalidated |->
          LET keys == OnSuccessKeys(m[1], m[2])
          IN /\ ~MutationFn(m[1], response).raised
             /\ \E i \in DOMAIN keys : IsPrefix(keys[i], entityKeys_list)] :
        m \in { r \in MutationHooks \X [entitySlug : EntitySlugs \cup {Absent}] :
                   r[2] \in MutationVariables(r[1]) },
        response \in AccessorEnvelopes({"d1"}) }

\* A mutation of the application ends.  The provider observes the entity
\* list query, which is fetched anew when the mutation invalidated it.
MutationEnds ==
    /\ Settled
    /\ \E outcome \in MutationOutcomes :
          /\ query' = IF outcome.listInvalidated THEN StartFetch(query)
                      ELSE query
          /\ lastEvent' = IF outcome.accepted THEN "mutationAccepted"
                          ELSE "mutationRefused"
    /\ refetchCalls' = 0
    /\ chain' = NewChain(lastEvent')
    /\ UNCHANGED <<mounted, user, defaultEntitySlug, selectedSlug,
                   isInitialized, previousUserUid, storage, rendered,
                   notified, sessionLoadDone>>
    /\ UNCHANGED <<clientVars, cacheVars>>

Next ==
    \/ Mount
    \/ Rerender
    \/ Login
    \/ Logout
    \/ SwitchUser
    \/ selectEntity
    \/ selectEntityById
    \/ refresh
    \/ clear
    \/ FetchFails
    \/ FetchSucceeds
    \/ MutationEnds
    \/ Reload

Init == ClientIdle /\ ProviderInit /\ CacheInit
Spec == Init /\ [][Next]_vars

\* The client alone, the provider not mounted.
ProviderAtRest ==
    /\ mounted = FALSE
    /\ user = Null
    /\ defaultEntitySlug = Null
    /\ storage = Null
    /\ selectedSlug = Null
    /\ isInitialized = FALSE
    /\ previousUserUid = Null
    /\ query = FreshQuery
    /\ rendered = NotRendered
    /\ notified = NeverNotified
    /\ sessionLoadDone = FALSE
    /\ refetchCalls = 0
    /\ chain = NoChain
    /\ lastEvent = "init"

InitClient == ClientIdle /\ ProviderAtRest /\ CacheInit
SpecClient == InitClient /\ [][NextClient]_vars

\* The bindings over the query cache, the provider not mounted.
InitCache == ClientIdle /\ ProviderAtRest /\ CacheInit
SpecCache == InitCache /\ [][NextCache]_vars
SpecBindings == InitCache /\ [][NextBindings]_vars

(***************************************************************************)
(* Properties of EntityClient (under SpecClient)                           *)
(***************************************************************************)

\* The call has got past getAuthToken().
AuthTokenObtained == cToken # Absent

\* C1: a call whose getAuthToken() resolved to null or to the empty string
\* returns exactly {success:false, error:"Not authenticated"}, and fetch is
\* never invoked for it.
C1_NotAuthenticatedNoFetch ==
    (AuthTokenObtained /\ (cToken = Null \/ cToken = "")) =>
        /\ cPc = "returned"
        /\ cResult = [success |-> FALSE, data |-> Absent,
                      error |-> "Not authenticated"]
        /\ cFetches = <<>>

C1_Witness ==
    /\ cPc = "returned"
    /\ cCall.op = "createInvitation"
    /\ cToken = ""
    /\ cResult.error = "Not authenticated"

\* C2: the call never raises: whichever of getAuthToken, fetch and
\* response.json() rejects, the call ends by returning an envelope.
C2_NeverRaises == cPc # "raised" /\ cThrown = Absent

\* The endpoint map of the HTTP contract: verb and path template.
EndpointMap(op) ==
    CASE op = "listEntities" -> [verb |-> "GET", path |-> <<"/entities">>]
      [] op = "createEntity" -> [verb |-> "POST", path |-> <<"/entities">>]
      [] op = "getEntity" ->
            [verb |-> "GET", path |-> <<"/entities/", "{slug}">>]
      [] op = "updateEntity" ->
            [verb |-> "PUT", path |-> <<"/entities/", "{slug}">>]
      [] op = "deleteEntity" ->
            [verb |-> "DELETE", path |-> <<"/entities/", "{slug}">>]
      [] op = "listMembers" ->
            [verb |-> "GET", path |-> <<"/entities/", "{slug}", "/members">>]
      [] op = "updateMemberRole" ->
            [verb |-> "PUT",
             path |-> <<"/entities/", "{slug}", "/members/", "{id}">>]
      [] op = "removeMember" ->
            [verb |-> "DELETE",
             path |-> <<"/entities/", "{slug}", "/members/", "{id}">>]
      [] op = "listEntityInvitations" ->
            [verb |-> "GET",
             path |-> <<"/entities/", "{slug}", "/invitations">>]
      [] op = "createInvitation" ->
            [verb |-> "POST",
             path |-> <<"/entities/", "{slug}", "/invitations">>]
      [] op = "cancelInvitation" ->
            [verb |-> "DELETE",
             path |-> <<"/entities/", "{slug}", "/invitations/", "{id}">>]
      [] op = "listMyInvitations" ->
            [verb |-> "GET", path |-> <<"/invitations">>]
      [] op = "acceptInvitation" ->
            [verb |-> "POST", path |-> <<"/invitations/", "{token}", "/accept">>]
      [] op = "declineInvitation" ->
            [verb |-> "POST",
             path |-> <<"/invitations/", "{token}", "/decline">>]

\* A path template with the arguments of the call in its placeholders.
SubstitutePath(template, a) ==
    [i \in DOMAIN template |->
        CASE template[i] = "{slug}" -> a.entitySlug
          [] template[i] = "{id}" -> a.id
          [] template[i] = "{token}" -> a.token
          [] OTHER -> template[i]]

\* The body the contract asks for: the serialized input of a create or
\* update operation, {role} for update member role, none otherwise.
ContractBody(op, a) ==
    CASE op \in {"createEntity", "updateEntity", "createInvitation"} ->
            JSONstringify(a.request)
      [] op = "updateMemberRole" -> JSONstringify(<< <<"role", a.role>> >>)
      [] OTHER -> NoBody

\* C3: a call with a token issues exactly one HTTP request, to baseUrl and
\* the path of the endpoint map, with the verb of the map, the JSON of the
\* input as body and Authorization: Bearer <token>; the server's envelope is
\* returned unchanged.
C3_EndpointContract ==
    (AuthTokenObtained /\ cToken \in AuthTokens) =>
        /\ Len(cFetches) = 1
        /\ cFetches[1].url =
              <<baseUrl>> \o SubstitutePath(EndpointMap(cCall.op).path, cCall.args)
        /\ FetchVerb(cFetches[1].init) = EndpointMap(cCall.op).verb
        /\ cFetches[1].init.body = ContractBody(cCall.op, cCall.args)
        /\ HeaderValue(cFetches[1].init.headers, "Authorization") =
              <<"Bearer ", cToken>>
        /\ (cPc = "returned" /\ cResponse.isJson) => cResult = cResponse.body

C3_Witness ==
    /\ cPc = "returned"
    /\ cCall.op = "updateMemberRole"
    /\ cCall.args.role = "manager"
    /\ cToken = "other-token"
    /\ Len(cFetches) = 1
    /\ cResponse.isJson
    /\ cResult = [success |-> FALSE, data |-> Absent, error |-> "Not found"]


(***************************************************************************)
(* Properties of CurrentEntityProvider (under Spec)                        *)
(***************************************************************************)

\* The value the provider exposes: the context value of the last render.
Exposed == ContextValue(rendered)

\* The positions of list l whose entity satisfies a test, and the least one.
SlugPositions(l, slug) == { i \in DOMAIN l : l[i].entitySlug = slug }
PersonalPositions(l) == { i \in DOMAIN l : l[i].entityType = PERSONAL }
Least(S) == CHOOSE i \in S : \A j \in S : i <= j

\* The resolution priority of the current entity.
PriorityEntity(l, slug) ==
    IF l = <<>> THEN NullEntity
    ELSE IF SlugPositions(l, slug) # {} THEN l[Least(SlugPositions(l, slug))]
    ELSE IF PersonalPositions(l) # {} THEN l[Least(PersonalPositions(l))]
    ELSE l[1]

C5_CurrentEntityInList ==
    mounted =>
        /\ \/ /\ Exposed.currentEntity = NullEntity
              /\ Exposed.currentEntitySlug = Null
              /\ Exposed.currentEntityId = Null
           \/ \E i \in DOMAIN rendered.entities :
                 /\ Exposed.currentEntity = rendered.entities[i]
                 /\ Exposed.currentEntitySlug = rendered.entities[i].entitySlug
                 /\ Exposed.currentEntityId = rendered.entities[i].id
        /\ Settled => rendered.entities = QueryEntities(query)

\* settled after selecting, by id, an entity that is not the default one
C5_Witness ==
    /\ Settled
    /\ user # Null
    /\ QueryEntities(query) = <<OrgC, OrgB>>
    /\ Exposed.currentEntity = OrgB
    /\ Exposed.currentEntitySlug = "b-org"
    /\ Exposed.currentEntityId = "2"

\* The selection is cleared: nothing selected, not initialized, no entry.
SelectionCleared ==
    selectedSlug = Null /\ isInitialized = FALSE /\ storage = Null

\* C6: once the effects of a logout commit have run, and after the re-render
\* that follows it, selectedSlug is null, isInitialized is false and the
\* stored entry is removed.
C6_LogoutClears ==
    /\ [](lastEvent = "logout" => SelectionCleared)
    /\ [][(lastEvent = "logout" /\ lastEvent' = "rerender")
            => (SelectionCleared' /\ Settled')]_vars

\* a logout with an organization selected, persisted and initialized
C6_Witness ==
    /\ lastEvent = "logout"
    /\ user = Null
    /\ rendered.selectedSlug = "b-org"
    /\ rendered.isInitialized
    /\ rendered.currentEntity = NullEntity
    /\ SelectionCleared

\* C7: while a user is authenticated, isInitialized is true only once a load
\* attempt of the entity list has completed in that session (not while the
\* fetch started at login is the only one, and in flight).
C7_InitializedOnlyAfterLoad ==
    (mounted /\ user # Null /\ Exposed.isInitialized) => sessionLoadDone

\* The slug the controller selects by default.
DefaultSlug(l) ==
    IF PersonalPositions(l) # {} THEN l[Least(PersonalPositions(l))].entitySlug
    ELSE l[1].entitySlug

\* A step that is a commit: a render, and the effects after it.
IsCommit(event) ==
    event \in {"mount", "rerender", "login", "logout", "switch"}

\* C8: a commit whose render has a user and a loaded, non-empty list sets
\* selectedSlug to the personal entity's slug, else the first entity's, when
\* the selected slug is null or not in the list, and leaves it otherwise.
C8_AutoSelect ==
    [][(/\ IsCommit(lastEvent')
        /\ rendered'.user # Null
        /\ ~rendered'.isEntitiesLoading
        /\ rendered'.entities # <<>>)
       => IF SlugPositions(rendered'.entities, rendered'.selectedSlug) = {}
          THEN selectedSlug' = DefaultSlug(rendered'.entities)
          ELSE selectedSlug' = rendered'.selectedSlug]_vars

\* a stale selection over a list without a personal entity
C8_Witness ==
    /\ lastEvent = "rerender"
    /\ user # Null
    /\ rendered.selectedSlug = StaleSlug
    /\ rendered.entities = <<OrgC, OrgB>>
    /\ ~rendered.isEntitiesLoading
    /\ selectedSlug = "c-org"

\* C9: settled with a user and a current entity, the stored entry is that
\* entity's slug.
C9_PersistedWhenResolved ==
    (Settled /\ user # Null /\ Exposed.currentEntity # NullEntity) =>
        storage = Exposed.currentEntitySlug

\* C10: at initialization selectedSlug is the stored slug if a non-empty one
\* is stored, else the defaultEntitySlug prop if given, else null.
C10_InitialSelection ==
    ~mounted =>
        selectedSlug =
            IF storage \notin {Null, ""} THEN storage
            ELSE IF defaultEntitySlug \notin {Null, ""} THEN defaultEntitySlug
            ELSE Null

\* a slug persisted by one run seeds the next, over the default slug
C10_Witness ==
    /\ ~mounted
    /\ lastEvent = "reload"
    /\ defaultEntitySlug = "c-org"
    /\ storage = "a-personal"
    /\ selectedSlug = "a-personal"

\* C11: with an onEntityChange callback supplied, a commit whose render
\* resolves another current entity than the render before it (null included)
\* calls the callback with it, and when the provider is settled the last value
\* passed to the callback is the current entity it exposes.
C11_CallbackFollowsEntity ==
    /\ []((Settled /\ onEntityChange) => notified = Exposed.currentEntity)
    /\ [][(/\ onEntityChange
           /\ IsCommit(lastEvent')
           /\ rendered'.currentEntity # rendered.currentEntity)
          => notified' = rendered'.currentEntity]_vars

\* a logout tells the callback of null after it was told of an entity
C11_Witness ==
    /\ onEntityChange
    /\ lastEvent = "logout"
    /\ rendered.entities = <<OrgB, PersonalEntity>>
    /\ rendered.selectedSlug = "b-org"
    /\ notified = NullEntity

\* C12: a commit that renders a user where the commit before it rendered none
\* (the first commit included) makes the effects call refetch() once, and the
\* list is then being fetched; a commit or other step that keeps the user, or
\* ends without a user (a logout), makes the effects call refetch() not at all.
C12_RefetchOnLogin ==
    [][/\ (mounted' /\ user' # Null /\ (~mounted \/ user = Null))
            => (refetchCalls' = 1 /\ query'.fetching)
       /\ (mounted /\ mounted' /\ user' = user) => refetchCalls' = 0
       /\ user' = Null => refetchCalls' = 0]_vars

\* a second login, over the list the first session left in the cache
C12_Witness ==
    /\ lastEvent = "login"
    /\ refetchCalls = 1
    /\ query.data.defined
    /\ query.fetching

\* C13: no step that ends mounted without a user starts a request for the
\* entity list.
C13_NoFetchWithoutUser ==
    [][(mounted' /\ user' = Null) => ~(query'.fetching /\ ~query.fetching)]_vars

\* C18: a failed load of the entity list, a mutation whose envelope says
\* success:false, and the re-renders that follow either, leave selectedSlug
\* and the stored entry as they were; and such a mutation leaves the query of
\* the entity list, a fetch in flight included, as it was.
C18_FailureKeepsSelection ==
    [][/\ chain'.origin \in {"fetchFails", "mutationRefused"}
            => (selectedSlug' = selectedSlug /\ storage' = storage)
       /\ lastEvent' = "mutationRefused" => query' = query]_vars

\* settled after a failed re-fetch, an organization selected and stored
C18_Witness ==
    /\ Settled
    /\ chain.origin = "fetchFails"
    /\ lastEvent = "rerender"
    /\ user # Null
    /\ query.status = "error"
    /\ selectedSlug = "b-org"
    /\ storage = "b-org"

\* The slugs of the entities of a list.
SlugsOf(l) == { l[i].entitySlug : i \in DOMAIN l }

\* C20: an event is followed by two re-renders at most, the effects of at
\* most one commit among the event's and theirs change selectedSlug, and when
\* the provider is settled with a user and a loaded, non-empty list,
\* selectedSlug is the slug of an entity of the list and of the current entity
\* it exposes.
C20_EffectChainSettles ==
    /\ chain.commits <= 2
    /\ chain.changes <= 1
    /\ (/\ Settled
        /\ user # Null
        /\ ~rendered.isEntitiesLoading
        /\ rendered.entities # <<>>)
          => /\ selectedSlug \in SlugsOf(rendered.entities)
             /\ selectedSlug = Exposed.currentEntitySlug

\* settled two re-renders after a list arrived that lacks the selected slug
C20_Witness ==
    /\ Settled
    /\ chain = [origin |-> "fetchSucceeds", commits |-> 2, changes |-> 1]
    /\ rendered.entities = <<OrgC, PersonalEntity>>
    /\ selectedSlug = "a-personal"
    /\ storage = "a-personal"

\* The provider is settled after a clear() called with a user and a loaded,
\* non-empty list, no other event since.
SettledAfterClear ==
    /\ Settled
    /\ chain.origin = "clear"
    /\ user # Null
    /\ ~rendered.isEntitiesLoading
    /\ rendered.entities # <<>>

\* C21: settled after a clear() called with a user and a loaded, non-empty
\* list, selectedSlug is the slug of the personal entity, else of the first,
\* isInitialized is true, and the stored entry is the slug of the current
\* entity.
C21_ClearReResolves ==
    SettledAfterClear =>
        /\ selectedSlug = DefaultSlug(rendered.entities)
        /\ Exposed.currentEntitySlug = selectedSlug
        /\ isInitialized
        /\ storage = Exposed.currentEntitySlug

\* C21, the part that holds: settled after such a clear(), selectedSlug is
\* the default slug and the slug of the current entity; and when the entity
\* current at the clear() was another one than the default, isInitialized is
\* true and the stored entry is that slug.
C21_ClearReselectsDefault ==
    SettledAfterClear =>
        /\ selectedSlug = DefaultSlug(rendered.entities)
        /\ Exposed.currentEntitySlug = selectedSlug
        /\ (isInitialized <=> storage = selectedSlug)
        /\ (~isInitialized => storage = Null)

\* settled after a clear() with an organization current: re-initialized
C21_Reinitialized ==
    /\ SettledAfterClear
    /\ chain.commits = 2
    /\ rendered.entities = <<OrgB, PersonalEntity>>
    /\ isInitialized
    /\ storage = "a-personal"

\* C22: mounted without a user, the provider exposes a null currentEntity,
\* currentEntitySlug and currentEntityId, the empty list and isLoading false,
\* and isInitialized is false; and no step that ends without a user, a
\* callback, a fetch of the list ending or a commit, sets the stored entry
\* (it may remove it) or sets isInitialized to true.
C22_AbsentUserExposesNothing ==
    /\ []((mounted /\ user = Null) =>
            /\ Exposed.currentEntity = NullEntity
            /\ Exposed.currentEntitySlug = Null
            /\ Exposed.currentEntityId = Null
            /\ Exposed.entities = <<>>
            /\ ~Exposed.isLoading
            /\ ~isInitialized)
    /\ [][user' = Null =>
            /\ storage' \in {storage, Null}
            /\ isInitialized' => isInitialized]_vars

\* logged out over a cached list, an entity of it selected by its id
C22_Witness ==
    /\ Settled
    /\ user = Null
    /\ chain.origin = "selectEntityById"
    /\ query.status = "success"
    /\ rendered.entities = <<OrgB, PersonalEntity>>
    /\ selectedSlug = "b-org"
    /\ storage = Null
    /\ Exposed.entities = <<>>

\* A commit undoes the selection: it clears a selected slug, resets a true
\* isInitialized or removes a stored entry.
CommitClearsSelection ==
    /\ IsCommit(lastEvent')
    /\ \/ selectedSlug # Null /\ selectedSlug' = Null
       \/ isInitialized /\ ~isInitialized'
       \/ storage # Null /\ storage' = Null

\* C23: the commit that renders another user than the one before it, with no
\* logout between, makes the effects call refetch() once, the list is then
\* being fetched, and selectedSlug, isInitialized and the stored entry are as
\* before it; and a commit clears the selection, resets isInitialized or
\* removes the stored entry only when it renders no user after one.
C23_UserSwitchKeepsSelection ==
    [][/\ lastEvent' = "switch" =>
            /\ user # Null /\ user' # Null /\ user' # user
            /\ previousUserUid = user /\ previousUserUid' = user'
            /\ refetchCalls' = 1
            /\ query'.fetching
            /\ selectedSlug' = selectedSlug
            /\ isInitialized' = isInitialized
            /\ storage' = storage
       /\ CommitClearsSelection =>
            (user' = Null /\ previousUserUid # Null)]_vars

\* another user rendered over an organization selected, stored, initialized
C23_Witness ==
    /\ lastEvent = "switch"
    /\ user = "u2"
    /\ previousUserUid = "u2"
    /\ rendered.entities = <<OrgB, PersonalEntity>>
    /\ selectedSlug = "b-org"
    /\ storage = "b-org"
    /\ isInitialized
    /\ refetchCalls = 1
    /\ query.fetching

(***************************************************************************)
(* Properties of the bindings (under SpecBindings and SpecCache)           *)
(***************************************************************************)

SeqRange(q) == { q[i] : i \in DOMAIN q }

\* The cache keys each mutation is declared to invalidate.
DeclaredNamespaces(m, entitySlug) ==
    CASE m \in {"useCreateEntity", "useDeleteEntity"} ->
            { <<"entities", "list">> }
      [] m = "useUpdateEntity" ->
            { <<"entities", "detail", entitySlug>>, <<"entities", "list">> }
      [] m \in {"useUpdateMemberRole", "useRemoveMember"} ->
            { <<"entities", "detail", entitySlug, "members", "list">> }
      [] m \in {"useCreateInvitation", "useCancelInvitation"} ->
            { <<"entities", "detail", entitySlug, "invitations">> }
      [] m = "useAcceptInvitation" ->
            { <<"invitations", "my">>, <<"entities", "list">> }
      [] m = "useDeclineInvitation" -> { <<"invitations", "my">> }

\* The queries in the cache that the declared keys of the last mutation match.
DeclaredQueries ==
    { k \in ExistingKeys :
        \E d \in DeclaredNamespaces(mutation.hook,
                                     mutation.variables.entitySlug) :
            IsPrefix(d, k) }

InactiveHooks ==
    { h \in observers : h.hook \in ScopedHooks /\ h.entitySlug \in {Null, ""} }

\* C15: no accessor call of useEntity, useEntityMembers or
\* useEntityInvitations in flight has a null or empty slug; and the query of
\* such a hook mounted with a null or empty slug has no fetch in flight, is
\* not in error, and holds no data, null or the empty list.
C15_InactiveQueriesNeverFetch ==
    /\ \A k \in CacheKeys :
          (cache[k].call # NoFetch /\ cache[k].call.hook \in ScopedHooks)
             => cache[k].call.entitySlug \notin {Null, ""}
    /\ \A h \in InactiveHooks :
          /\ cache[QueryKey(h)].call = NoFetch
          /\ cache[QueryKey(h)].status # "error"
          /\ cache[QueryKey(h)].data \in {Undefined, NullData, Value({})}

\* useEntityMembers(null) after a refetch(), beside the entity list that a
\* mutation made fetch anew
C15_Witness ==
    /\ observers = { [hook |-> "useEntityMembers", entitySlug |-> Null],
                     [hook |-> "useEntities", entitySlug |-> Absent] }
    /\ cache[<<"disabled">>].status = "success"
    /\ cache[<<"disabled">>].data = Value({})
    /\ cache[<<"entities", "list">>].isInvalidated
    /\ cache[<<"entities", "list">>].call # NoFetch

\* Slugs to build keys for: the entity slugs, and the words the keys are
\* made of.
KeySlugs ==
    EntitySlugs \cup {"disabled", "entities", "list", "detail", "members",
                      "invitations", "my"}

\* The keys by resource kind (entityKeys.lists and entityKeys.list are the
\* one kind of the entity list) and slug, Absent for the kinds without one.
KeyInputs ==
    ({"entities", "entityList", "entityDetails", "invitations",
      "myInvitations"} \X {Absent})
        \cup ({"entityDetail", "members", "memberList", "entityInvitations"}
                \X KeySlugs)
BuiltKey(in) ==
    CASE in[1] = "entities" -> entityKeys_all
      [] in[1] = "entityList" -> entityKeys_list
      [] in[1] = "entityDetails" -> entityKeys_details
      [] in[1] = "invitations" -> invitationKeys_all
      [] in[1] = "myInvitations" -> invitationKeys_myList
      [] in[1] = "entityDetail" -> entityKeys_detail(in[2])
      [] in[1] = "members" -> memberKeys_all(in[2])
      [] in[1] = "memberList" -> memberKeys_list(in[2])
      [] in[1] = "entityInvitations" -> invitationKeys_entityList(in[2])

\* The keys the builders make, among themselves and against the key of the
\* inactive queries.
BuiltKeysApart ==
    /\ \A in \in KeyInputs :
          BuiltKey(in) # DisabledKey /\ ~IsPrefix(BuiltKey(in), DisabledKey)
    /\ \A in1, in2 \in KeyInputs :
          (BuiltKey(in1) = BuiltKey(in2)) <=> (in1 = in2)
    /\ entityKeys_lists = entityKeys_list

\* C16: no key the builders make is the key of the inactive queries or a
\* prefix of it; the builders make the same key for two inputs only if kind
\* and slug are the same (and entityKeys.lists() is entityKeys.list()); and the
\* query of a hook mounted with a null or empty slug is never marked
\* invalidated.
C16_SentinelKeyApart ==
    /\ BuiltKeysApart
    /\ \A h \in InactiveHooks : ~cache[QueryKey(h)].isInvalidated

\* useEntity('') mounted while a mutation invalidated the invitations of an
\* entity
C16_Witness ==
    /\ observers = { [hook |-> "useEntity", entitySlug |-> ""],
                     [hook |-> "useEntityInvitations",
                      entitySlug |-> "abc12345"] }
    /\ cache[<<"entities", "detail", "abc12345", "invitations">>].isInvalidated
    /\ cache[<<"disabled">>] = FreshEntry

\* The fixed message of each read binding.
DefaultReadMessage(hook) ==
    CASE hook = "useEntities" -> "Failed to fetch entities"
      [] hook = "useEntity" -> "Failed to fetch entity"
      [] hook = "useEntityMembers" -> "Failed to fetch members"
      [] hook \in {"useMyInvitations", "useEntityInvitations"} ->
            "Failed to fetch invitations"

\* The query of the query function that the last step completed.
LastFnQuery ==
    cache[QueryKey([hook |-> lastFn.hook, entitySlug |-> lastFn.entitySlug])]

\* The query function raised, with the envelope's error text or, the
\* envelope carrying none, with the default message of the binding, and the
\* query is in error.
ReadRaised ==
    /\ lastFn.raised
    /\ lastFn.message =
          IF lastFn.response.error \in {Absent, ""}
          THEN DefaultReadMessage(lastFn.hook)
          ELSE lastFn.response.error
    /\ LastFnQuery.status = "error"

\* The query function resolved to the envelope's data.
ReadResolved == ~lastFn.raised /\ lastFn.value = lastFn.response.data

\* C17, as claimed: the query function of every read binding raises for an
\* envelope with success:false and resolves to the envelope's data for every
\* envelope with success:true.
C17_ReadOutcomeAsClaimed ==
    lastFn.called =>
        IF lastFn.response.success THEN ReadResolved ELSE ReadRaised

\* C17, amended: the query function of every read binding raises for an
\* envelope with success:false, with the envelope's error text or the default
\* message, and the query is then in error; for an envelope with success:true
\* it resolves to the envelope's data, except that useEntityMembers raises,
\* with its default message, when that envelope carries no data.
C17_ReadOutcome ==
    lastFn.called =>
        IF /\ lastFn.response.success
           /\ ~(lastFn.hook = "useEntityMembers"
                    /\ lastFn.response.data = Undefined)
        THEN ReadResolved
        ELSE ReadRaised

\* useEntityMembers, the envelope {success: true} without data
C17_Witness ==
    /\ lastFn.called
    /\ lastFn.hook = "useEntityMembers"
    /\ lastFn.response.success
    /\ lastFn.response.data = Undefined
    /\ lastFn.raised
    /\ lastFn.message = "Failed to fetch members"

\* The query of the entity list
EntityListQuery == cache[<<"entities", "list">>]

\* C19: when the server holds the entity that a create-entity mutation
\* created, a cached entity list without it is marked invalidated and is
\* being fetched anew, or its last fetch failed; so a list that the cache holds
\* unmarked, with no fetch in flight, includes the created entity.
C19_CreatedEntityListed ==
    (/\ NewEntitySlug \in serverEntities
     /\ EntityListQuery.data # Undefined
     /\ NewEntitySlug \notin EntityListQuery.data.value)
        => /\ EntityListQuery.isInvalidated
           /\ EntityListQuery.call # NoFetch \/ EntityListQuery.status = "error"

\* the list fetched before the creation, marked and being fetched anew
C19_Witness ==
    /\ serverEntities = {"abc12345", NewEntitySlug}
    /\ EntityListQuery.data = Value({"abc12345"})
    /\ EntityListQuery.status = "success"
    /\ EntityListQuery.isInvalidated
    /\ EntityListQuery.call # NoFetch

====
